---- MODULE Spec2Model ----
(***************************************************************************)
(* Model of status-checker/src/main.rs: a command-line website status      *)
(* checker.  main parses the arguments, loads the URL list, fans the URLs  *)
(* out to a pool of worker threads through an mpsc channel guarded by a    *)
(* mutex, and fans the WebsiteStatus values back in through a second       *)
(* channel that main drains after it has joined every worker.              *)
(***************************************************************************)
EXTENDS Naturals, Sequences, FiniteSets, Bags, TLC

(* ---------------------------- bounds ---------------------------------- *)
MaxUrls == 3          \* file lines plus command-line URLs given to a run
MaxWorkers == 2       \* largest value passed to --workers
MaxRetries == 2       \* largest value passed to --retries

(* ------------------------ program constants --------------------------- *)
DefaultWorkers == 4
DefaultTimeoutSecs == 5
DefaultRetries == 0
BackoffMillis == 100
ExitUsage == 2

(* ------------------------------ inputs -------------------------------- *)
OkUrl == "http://ok.test"
FailUrl == "http://fails.test"
Urls == {OkUrl, FailUrl}

FilePath == "urls.txt"
\* lines a URL file may hold: a padded URL, a blank line, a comment
FileLines == {" http://ok.test ", "   ", "# note"}

Flags == {"--file", "--workers", "--timeout", "--retries", "--verbose"}

\* decimal text of the small numbers that appear on the command line
NumStr == <<"0", "1", "2", "3", "4", "5", "6", "7", "8", "9">>

ToStr(n) == NumStr[n + 1]

\* str::parse::<usize/u64/u32>: Ok(n) for decimal text, Err otherwise
IsNum(s) == \E i \in 1..Len(NumStr) : NumStr[i] = s

ParseNum(s) == (CHOOSE i \in 1..Len(NumStr) : NumStr[i] = s) - 1

\* str::starts_with("--")
StartsWithDashes(s) == s \in Flags

\* str::trim
Trim(s) ==
    IF s = " http://ok.test " THEN OkUrl
    ELSE IF s = "   " THEN ""
    ELSE s

\* str::starts_with('#')
StartsWithHash(s) == s = "# note"

SeqsUpTo(S, n) == UNION {[1..k -> S] : k \in 0..n}

(* --------------------------- Result values ---------------------------- *)
Ok(code) == [tag |-> "Ok", code |-> code, err |-> ""]
Err(e) == [tag |-> "Err", code |-> 0, err |-> e]

StatusCodes == {200, 500}
TransportErrors == {"operation timed out", "connection refused"}
ClientError == "Failed to create client"

(* ----------------------------- Config --------------------------------- *)
\* file_path: Option<String> is <<>> for None and <<p>> for Some(p)
DefaultConfig ==
    [file_path |-> <<>>, urls |-> <<>>, workers |-> DefaultWorkers,
     timeout_secs |-> DefaultTimeoutSecs, retries |-> DefaultRetries]

ParseOk(c) == [ok |-> TRUE, cfg |-> c, err |-> ""]
ParseErr(e) == [ok |-> FALSE, cfg |-> DefaultConfig, err |-> e]

RECURSIVE ParseArgs(_, _, _)
\* the while-let loop of Config::from_args over args[i..], then its final test
ParseArgs(args, i, c) ==
    IF i > Len(args)
    THEN IF c.file_path = <<>> /\ c.urls = <<>>
         THEN ParseErr("No URLs provided. Use --file or provide URLs directly.")
         ELSE ParseOk(c)
    ELSE LET arg == args[i]
             hasNext == i + 1 <= Len(args)
         IN  IF arg = "--file"
             THEN IF ~hasNext THEN ParseErr("Expected file path after --file")
                  ELSE ParseArgs(args, i + 2, [c EXCEPT !.file_path = <<args[i + 1]>>])
             ELSE IF arg = "--workers"
             THEN IF ~hasNext THEN ParseErr("Expected number after --workers")
                  ELSE IF ~IsNum(args[i + 1]) THEN ParseErr("Invalid number for --workers")
                  ELSE ParseArgs(args, i + 2, [c EXCEPT !.workers = ParseNum(args[i + 1])])
             ELSE IF arg = "--timeout"
             THEN IF ~hasNext THEN ParseErr("Expected number after --timeout")
                  ELSE IF ~IsNum(args[i + 1]) THEN ParseErr("Invalid number for --timeout")
                  ELSE ParseArgs(args, i + 2, [c EXCEPT !.timeout_secs = ParseNum(args[i + 1])])
             ELSE IF arg = "--retries"
             THEN IF ~hasNext THEN ParseErr("Expected number after --retries")
                  ELSE IF ~IsNum(args[i + 1]) THEN ParseErr("Invalid number for --retries")
                  ELSE ParseArgs(args, i + 2, [c EXCEPT !.retries = ParseNum(args[i + 1])])
             ELSE IF StartsWithDashes(arg)
             THEN ParseErr("Unknown flag")
             ELSE ParseArgs(args, i + 1, [c EXCEPT !.urls = Append(c.urls, arg)])

from_args(args) == ParseArgs(args, 1, DefaultConfig)

RECURSIVE FilterLines(_)
\* the for loop of load_urls: keep trimmed lines that are neither blank nor comments
FilterLines(lines) ==
    IF lines = <<>> THEN <<>>
    ELSE LET trimmed == Trim(Head(lines))
         IN  IF trimmed # "" /\ ~StartsWithHash(trimmed)
             THEN <<trimmed>> \o FilterLines(Tail(lines))
             ELSE FilterLines(Tail(lines))

\* load_urls without the test of lines 100-102
load_urlsNoCheck(c, file) ==
    IF c.file_path # <<>> /\ ~file.readable
    THEN [ok |-> FALSE, urls |-> <<>>, err |-> "Failed to open file"]
    ELSE LET fromFile == IF c.file_path # <<>> THEN FilterLines(file.lines) ELSE <<>>
         IN  [ok |-> TRUE, urls |-> fromFile \o c.urls, err |-> ""]

\* load_urls(config) when the file (if any) holds `file`
load_urls(c, file) ==
    IF c.file_path # <<>> /\ ~file.readable
    THEN [ok |-> FALSE, urls |-> <<>>, err |-> "Failed to open file"]
    ELSE LET fromFile == IF c.file_path # <<>> THEN FilterLines(file.lines) ELSE <<>>
             all == fromFile \o c.urls
         IN  IF all = <<>>
             THEN [ok |-> FALSE, urls |-> <<>>, err |-> "No valid URLs provided."]
             ELSE [ok |-> TRUE, urls |-> all, err |-> ""]


(* --------------------------- check_website ---------------------------- *)
\* what one client.get(url).send() can return: the fake network answers by URL
\* alone, the real one with any response or any transport error
FakeSend(u) == IF u = OkUrl THEN Ok(200) ELSE Err("operation timed out")

SendResults(n, u) ==
    IF n = "fake" THEN {FakeSend(u)}
    ELSE {Ok(c) : c \in StatusCodes} \cup {Err(e) : e \in TransportErrors}

\* what Client::builder().timeout(..).build() can return
BuildResults(n) == IF n = "fake" THEN {TRUE} ELSE BOOLEAN

\* milliseconds one attempt is known to take: a timed-out attempt takes the
\* whole per-attempt timeout, anything else may return at once
AttemptMillis(r, timeout_secs) ==
    IF r.tag = "Err" /\ r.err = "operation timed out" THEN timeout_secs * 1000 ELSE 0

WebsiteStatus(u, res, millis) ==
    [url |-> u, action_status |-> res, response_time |-> millis]

\* what a call of check_website did besides returning: whether it got a client,
\* what each send() returned, how often it slept
Trace(ok, sent, slept) == [built |-> ok, log |-> sent, sleeps |-> slept]

RECURSIVE AttemptsExclusive(_, _, _, _, _)
\* Attempts over 0..retries instead of 0..=retries
AttemptsExclusive(script, attempt, retries, timeout_secs, acc) ==
    IF attempt >= retries THEN acc
    ELSE LET r == script[attempt + 1]
             sent == Append(acc.log, r)
             t == acc.elapsed + AttemptMillis(r, timeout_secs)
         IN  IF r.tag = "Ok"
             THEN [result |-> Ok(r.code), log |-> sent, sleeps |-> acc.sleeps, elapsed |-> t]
             ELSE IF attempt < retries - 1
             THEN AttemptsExclusive(script, attempt + 1, retries, timeout_secs,
                           [result |-> acc.result, log |-> sent, sleeps |-> acc.sleeps + 1,
                            elapsed |-> t + BackoffMillis])
             ELSE AttemptsExclusive(script, attempt + 1, retries, timeout_secs,
                           [result |-> Err(r.err), log |-> sent, sleeps |-> acc.sleeps,
                            elapsed |-> t])

RECURSIVE AttemptsRetryServerError(_, _, _, _, _)
\* Attempts that takes only a status below 500 for a response worth reporting
AttemptsRetryServerError(script, attempt, retries, timeout_secs, acc) ==
    IF attempt > retries THEN acc
    ELSE LET r == script[attempt + 1]
             sent == Append(acc.log, r)
             t == acc.elapsed + AttemptMillis(r, timeout_secs)
         IN  IF r.tag = "Ok" /\ r.code < 500
             THEN [result |-> Ok(r.code), log |-> sent, sleeps |-> acc.sleeps, elapsed |-> t]
             ELSE IF attempt < retries
             THEN AttemptsRetryServerError(script, attempt + 1, retries, timeout_secs,
                           [result |-> acc.result, log |-> sent, sleeps |-> acc.sleeps + 1,
                            elapsed |-> t + BackoffMillis])
             ELSE AttemptsRetryServerError(script, attempt + 1, retries, timeout_secs,
                           [result |-> Err("server error"), log |-> sent,
                            sleeps |-> acc.sleeps, elapsed |-> t])

RECURSIVE AttemptsFirstError(_, _, _, _, _)
\* Attempts that keeps the first error it saw instead of the last
AttemptsFirstError(script, attempt, retries, timeout_secs, acc) ==
    IF attempt > retries THEN acc
    ELSE LET r == script[attempt + 1]
             sent == Append(acc.log, r)
             t == acc.elapsed + AttemptMillis(r, timeout_secs)
         IN  IF r.tag = "Ok"
             THEN [result |-> Ok(r.code), log |-> sent, sleeps |-> acc.sleeps, elapsed |-> t]
             ELSE IF attempt < retries
             THEN AttemptsFirstError(script, attempt + 1, retries, timeout_secs,
                           [result |-> Err(sent[1].err), log |-> sent,
                            sleeps |-> acc.sleeps + 1, elapsed |-> t + BackoffMillis])
             ELSE AttemptsFirstError(script, attempt + 1, retries, timeout_secs,
                           [result |-> Err(sent[1].err), log |-> sent, sleeps |-> acc.sleeps,
                            elapsed |-> t])

RECURSIVE AttemptsSleepAfterLast(_, _, _, _, _)
\* Attempts that sleeps after every failed send(), the last one too
AttemptsSleepAfterLast(script, attempt, retries, timeout_secs, acc) ==
    IF attempt > retries THEN acc
    ELSE LET r == script[attempt + 1]
             sent == Append(acc.log, r)
             t == acc.elapsed + AttemptMillis(r, timeout_secs)
         IN  IF r.tag = "Ok"
             THEN [result |-> Ok(r.code), log |-> sent, sleeps |-> acc.sleeps, elapsed |-> t]
             ELSE IF attempt < retries
             THEN AttemptsSleepAfterLast(script, attempt + 1, retries, timeout_secs,
                           [result |-> acc.result, log |-> sent, sleeps |-> acc.sleeps + 1,
                            elapsed |-> t + BackoffMillis])
             ELSE AttemptsSleepAfterLast(script, attempt + 1, retries, timeout_secs,
                           [result |-> Err(r.err), log |-> sent, sleeps |-> acc.sleeps + 1,
                            elapsed |-> t + BackoffMillis])

RECURSIVE AttemptsClockPerAttempt(_, _, _, _, _)
\* Attempts with `start` taken inside the loop: the time of the last send() only
AttemptsClockPerAttempt(script, attempt, retries, timeout_secs, acc) ==
    IF attempt > retries THEN acc
    ELSE LET r == script[attempt + 1]
             sent == Append(acc.log, r)
             t == AttemptMillis(r, timeout_secs)
         IN  IF r.tag = "Ok"
             THEN [result |-> Ok(r.code), log |-> sent, sleeps |-> acc.sleeps, elapsed |-> t]
             ELSE IF attempt < retries
             THEN AttemptsClockPerAttempt(script, attempt + 1, retries, timeout_secs,
                           [result |-> acc.result, log |-> sent, sleeps |-> acc.sleeps + 1,
                            elapsed |-> t])
             ELSE AttemptsClockPerAttempt(script, attempt + 1, retries, timeout_secs,
                           [result |-> Err(r.err), log |-> sent, sleeps |-> acc.sleeps,
                            elapsed |-> t])

RECURSIVE Attempts(_, _, _, _, _)
\* lines 116-129: the for loop from iteration `attempt` on, where the k-th send()
\* returns script[k]; acc carries `result`, the sends made, the sleeps taken and the
\* milliseconds since `start`
Attempts(script, attempt, retries, timeout_secs, acc) ==
    IF attempt > retries THEN acc
    ELSE LET r == script[attempt + 1]
             sent == Append(acc.log, r)
             t == acc.elapsed + AttemptMillis(r, timeout_secs)
         IN  IF r.tag = "Ok"
             THEN [result |-> Ok(r.code), log |-> sent, sleeps |-> acc.sleeps, elapsed |-> t]
             ELSE IF attempt < retries
             THEN Attempts(script, attempt + 1, retries, timeout_secs,
                           [result |-> acc.result, log |-> sent, sleeps |-> acc.sleeps + 1,
                            elapsed |-> t + BackoffMillis])
             ELSE Attempts(script, attempt + 1, retries, timeout_secs,
                           [result |-> Err(r.err), log |-> sent, sleeps |-> acc.sleeps,
                            elapsed |-> t])

\* check_website that runs the attempts whether or not it got a client
check_websiteIgnoreClient(u, timeout_secs, retries, clientOk, script) ==
    LET start == [result |-> Err(ClientError), log |-> <<>>, sleeps |-> 0, elapsed |-> 0]
        fin == Attempts(script, 0, retries, timeout_secs, start)
    IN  [status |-> WebsiteStatus(u, fin.result, fin.elapsed),
         trace |-> Trace(clientOk, fin.log, fin.sleeps)]

\* lines 107-138: check_website when build() succeeds iff clientOk
check_website(u, timeout_secs, retries, clientOk, script) ==
    LET start == [result |-> Err(ClientError), log |-> <<>>, sleeps |-> 0, elapsed |-> 0]
        fin == IF clientOk THEN Attempts(script, 0, retries, timeout_secs, start) ELSE start
    IN  [status |-> WebsiteStatus(u, fin.result, fin.elapsed),
         trace |-> Trace(clientOk, fin.log, fin.sleeps)]

\* the answers the network may give to the sends of one check_website
\* (what follows a response is never asked for, so it repeats the response)
Scripts(n, u, retries) ==
    {s \in [1..(retries + 1) -> SendResults(n, u)] :
        \A k \in 1..retries : s[k].tag = "Ok" => s[k + 1] = s[k]}

NoStatus == WebsiteStatus("", Err(""), 0)
NoTrace == Trace(FALSE, <<>>, 0)
NoItem == [id |-> 0, url |-> ""]

(* ------------------------------ state --------------------------------- *)
Workers == 1..MaxWorkers

VARIABLES
    argv,         \* env::args().skip(1), consumed by from_args
    net,          \* "fake": endpoints answer by URL alone; "real": anything
    mainPc,       \* position of the main thread
    exit_code,    \* <<>> while running, <<c>> once the process has ended
    message,      \* the error text main printed before exit(2), "" for none
    config,       \* Config returned by from_args
    urls,         \* Vec returned by load_urls
    tx,           \* URL channel sender: "none", "open", "dropped"
    queue,        \* URL channel buffer; id is the index of the send
    tx_status,    \* main's WebsiteStatus sender: "none", "open", "dropped"
    sink,         \* WebsiteStatus channel buffer
    handles,      \* number of JoinHandles pushed
    enqIdx,         \* index into urls of the enqueue loop
    joined,       \* number of handles joined
    results,      \* Vec filled by the drain loop
    status_json,  \* <<>> or <<rows>>: what write_json wrote
    lockHolder,   \* worker holding the Mutex around rx, 0 for nobody
    pc,           \* position of each worker thread
    cur,          \* queue item a worker received
    status,       \* WebsiteStatus the worker's check_website returned
    trace,        \* what that check_website did
    poisoned,     \* the Mutex around rx is poisoned
    deqLog,       \* history: every successful recv, in order
    sendLog       \* history: every tx_status.send, in order

mainVars == <<argv, net, mainPc, exit_code, message, config, urls, handles, enqIdx,
              joined, results, status_json>>
chanVars == <<tx, queue, tx_status, sink>>
probeVars == <<status, trace>>
histVars == <<deqLog, sendLog>>
workerVars == <<lockHolder, poisoned, pc, cur, probeVars, histVars>>
vars == <<mainVars, chanVars, workerVars>>

(* ------------------------------- Init --------------------------------- *)
WorkersArgs == {<<"--workers", ToStr(n)>> : n \in 0..MaxWorkers}
RetriesArgs == {<<>>} \cup {<<"--retries", ToStr(n)>> : n \in 1..MaxRetries}
TimeoutArgs == {<<>>, <<"--timeout", "0">>}

\* runs against the fake network: every URL list and worker count, and every
\* retry count for the lists shorter than MaxUrls
PoolArgv ==
    {u \o w : u \in SeqsUpTo(Urls, MaxUrls), w \in WorkersArgs} \cup
    {u \o w \o r : u \in SeqsUpTo(Urls, MaxUrls - 1), w \in WorkersArgs, r \in RetriesArgs}

\* runs against the fake network that read a URL file, with and without --timeout 0
FileArgv ==
    {<<"--file", FilePath>> \o u \o <<"--workers", "1">> \o t :
        u \in SeqsUpTo(Urls, MaxUrls), t \in TimeoutArgs}

\* command lines from_args rejects
MalformedArgv ==
    {<<OkUrl, "--verbose">>, <<OkUrl, "--workers">>, <<OkUrl, "--workers", "many">>,
     <<"--file">>}

\* runs of one URL against the real network: every worker count and retry count
ProbeArgv ==
    {<<u>> \o w \o r \o t : u \in Urls, w \in WorkersArgs, r \in RetriesArgs,
                           t \in TimeoutArgs}

\* the states the file named by --file can be in when load_urls opens it
FileStates(maxLines) ==
    {[readable |-> FALSE, lines |-> <<>>]} \cup
    {[readable |-> TRUE, lines |-> l] : l \in SeqsUpTo(FileLines, maxLines)}

Init ==
    /\ \/ net = "fake" /\ argv \in PoolArgv \cup FileArgv \cup MalformedArgv
       \/ net = "real" /\ argv \in ProbeArgv
    /\ mainPc = "from_args"
    /\ exit_code = <<>>
    /\ message = ""
    /\ config = DefaultConfig
    /\ urls = <<>>
    /\ tx = "none"
    /\ queue = <<>>
    /\ tx_status = "none"
    /\ sink = <<>>
    /\ handles = 0
    /\ enqIdx = 1
    /\ joined = 0
    /\ results = <<>>
    /\ status_json = <<>>
    /\ lockHolder = 0
    /\ pc = [w \in Workers |-> "unspawned"]
    /\ cur = [w \in Workers |-> NoItem]
    /\ status = [w \in Workers |-> NoStatus]
    /\ trace = [w \in Workers |-> NoTrace]
    /\ poisoned = FALSE
    /\ deqLog = <<>>
    /\ sendLog = <<>>


(* --------------------------- main thread ------------------------------ *)
\* print the error, then process::exit(code)
Exit(code, msg) ==
    /\ mainPc' = "exit"
    /\ exit_code' = <<code>>
    /\ message' = msg

\* lines 182-185: Config::from_args().unwrap_or_else(.. exit(2))
MFromArgs ==
    /\ mainPc = "from_args"
    /\ LET r == from_args(argv)
       IN  /\ argv' = <<>>
           /\ IF r.ok
              THEN /\ config' = r.cfg
                   /\ mainPc' = "load_urls"
                   /\ UNCHANGED <<exit_code, message>>
              ELSE /\ Exit(ExitUsage, r.err)
                   /\ UNCHANGED config
    /\ UNCHANGED <<net, urls, handles, enqIdx, joined, results, status_json>>
    /\ UNCHANGED <<chanVars, workerVars>>

\* lines 187-190: load_urls(&config).unwrap_or_else(.. exit(2))
MLoadUrls ==
    /\ mainPc = "load_urls"
    /\ \E file \in FileStates(IF config.file_path = <<>> THEN 0
                              ELSE MaxUrls - Len(config.urls)) :
         LET r == load_urls(config, file)
         IN  IF r.ok
             THEN /\ urls' = r.urls
                  /\ mainPc' = "channels"
                  /\ UNCHANGED <<exit_code, message>>
             ELSE /\ Exit(ExitUsage, r.err)
                  /\ UNCHANGED urls
    /\ UNCHANGED <<argv, net, config, handles, enqIdx, joined, results, status_json>>
    /\ UNCHANGED <<chanVars, workerVars>>

\* lines 192-199: the two channels and the empty handles Vec
MChannels ==
    /\ mainPc = "channels"
    /\ tx' = "open"
    /\ queue' = <<>>
    /\ tx_status' = "open"
    /\ sink' = <<>>
    /\ handles' = 0
    /\ mainPc' = "spawn"
    /\ UNCHANGED <<argv, net, exit_code, message, config, urls, enqIdx, joined, results,
                   status_json>>
    /\ UNCHANGED workerVars

\* lines 201-227: one iteration of the spawn loop
MSpawn ==
    /\ mainPc = "spawn"
    /\ handles < config.workers
    /\ pc' = [pc EXCEPT ![handles + 1] = "lock"]
    /\ handles' = handles + 1
    /\ UNCHANGED <<argv, net, mainPc, exit_code, message, config, urls, enqIdx, joined, results,
                   status_json>>
    /\ UNCHANGED <<chanVars, lockHolder, poisoned, cur, probeVars, histVars>>

\* line 201: the spawn loop ends
MSpawnDone ==
    /\ mainPc = "spawn"
    /\ handles = config.workers
    /\ mainPc' = IF urls = <<>> THEN "drop_tx" ELSE "enqueue"
    /\ enqIdx' = 1
    /\ UNCHANGED <<argv, net, exit_code, message, config, urls, handles, joined, results,
                   status_json>>
    /\ UNCHANGED <<chanVars, workerVars>>

\* terminated threads have dropped what their closure owned
Live(w) == pc[w] \notin {"unspawned", "terminated", "panicked"}

\* RxAlive had main moved its Arc into the workers: only they keep the receiver
RxAliveWorkersOnly == \E w \in Workers : Live(w)

\* the Receiver<String> lives while main or a live worker holds the Arc
RxAlive == mainPc \notin {"exit", "done", "panicked"} \/ \E w \in Workers : Live(w)

\* lines 229-233: one iteration of the enqueue loop; a failed send breaks
MEnqueue ==
    /\ mainPc = "enqueue"
    /\ enqIdx <= Len(urls)
    /\ IF RxAlive
       THEN /\ queue' = Append(queue, [id |-> enqIdx, url |-> urls[enqIdx]])
            /\ enqIdx' = enqIdx + 1
            /\ mainPc' = IF enqIdx = Len(urls) THEN "drop_tx" ELSE "enqueue"
       ELSE /\ mainPc' = "drop_tx"
            /\ UNCHANGED <<queue, enqIdx>>
    /\ UNCHANGED <<argv, net, exit_code, message, config, urls, handles, joined, results,
                   status_json>>
    /\ UNCHANGED <<tx, tx_status, sink, workerVars>>

\* MDropTx without the drop: main goes on to join with the sender still open
MDropTxForgotten ==
    /\ mainPc = "drop_tx"
    /\ mainPc' = "join"
    /\ joined' = 0
    /\ UNCHANGED <<argv, net, exit_code, message, config, urls, handles, enqIdx, results,
                   status_json>>
    /\ UNCHANGED <<chanVars, workerVars>>

\* line 235: drop(tx), after the loop ran out or broke
MDropTx ==
    /\ mainPc = "drop_tx"
    /\ tx' = "dropped"
    /\ mainPc' = "join"
    /\ joined' = 0
    /\ UNCHANGED <<argv, net, exit_code, message, config, urls, handles, enqIdx, results,
                   status_json>>
    /\ UNCHANGED <<queue, tx_status, sink, workerVars>>

\* lines 237-239: handle.join().unwrap() on the next handle
MJoin ==
    /\ mainPc = "join"
    /\ joined < handles
    /\ pc[joined + 1] \in {"terminated", "panicked"}
    /\ IF pc[joined + 1] = "terminated"
       THEN /\ joined' = joined + 1
            /\ UNCHANGED <<mainPc, exit_code>>
       ELSE /\ mainPc' = "panicked"
            /\ exit_code' = <<101>>
            /\ UNCHANGED joined
    /\ UNCHANGED <<argv, net, message, config, urls, handles, enqIdx, results, status_json>>
    /\ UNCHANGED <<chanVars, workerVars>>

\* MDropTxStatus placed before the join loop: main drains while workers run
MDropTxStatusBeforeJoin ==
    /\ mainPc = "join"
    /\ tx_status' = "dropped"
    /\ mainPc' = "drain"
    /\ UNCHANGED <<argv, net, exit_code, message, config, urls, handles, enqIdx, joined, results,
                   status_json>>
    /\ UNCHANGED <<tx, queue, sink, workerVars>>

\* line 241: drop(tx_status), once every handle is joined
MDropTxStatus ==
    /\ mainPc = "join"
    /\ joined = handles
    /\ tx_status' = "dropped"
    /\ mainPc' = "drain"
    /\ UNCHANGED <<argv, net, exit_code, message, config, urls, handles, enqIdx, joined, results,
                   status_json>>
    /\ UNCHANGED <<tx, queue, sink, workerVars>>

\* a Sender<WebsiteStatus> exists: main's, or the clone of a live worker
SendersAlive == tx_status = "open" \/ \E w \in Workers : Live(w)

\* MDrainOk as an `if let`: one status is taken and the loop is over
MDrainOkOnce ==
    /\ mainPc = "drain"
    /\ sink # <<>>
    /\ results' = Append(results, Head(sink))
    /\ sink' = Tail(sink)
    /\ mainPc' = "write_json"
    /\ UNCHANGED <<argv, net, exit_code, message, config, urls, handles, enqIdx, joined,
                   status_json>>
    /\ UNCHANGED <<tx, queue, tx_status, workerVars>>

\* MDrainOk with results.insert(0, status): the newest outcome comes first
MDrainOkPrepend ==
    /\ mainPc = "drain"
    /\ sink # <<>>
    /\ results' = <<Head(sink)>> \o results
    /\ sink' = Tail(sink)
    /\ UNCHANGED <<argv, net, mainPc, exit_code, message, config, urls, handles, enqIdx, joined,
                   status_json>>
    /\ UNCHANGED <<tx, queue, tx_status, workerVars>>

\* lines 243-246: rx_status.recv() returned Ok(status)
MDrainOk ==
    /\ mainPc = "drain"
    /\ sink # <<>>
    /\ results' = Append(results, Head(sink))
    /\ sink' = Tail(sink)
    /\ UNCHANGED <<argv, net, mainPc, exit_code, message, config, urls, handles, enqIdx, joined,
                   status_json>>
    /\ UNCHANGED <<tx, queue, tx_status, workerVars>>

\* line 244: rx_status.recv() returned Err: empty and every sender dropped
MDrainEnd ==
    /\ mainPc = "drain"
    /\ sink = <<>>
    /\ ~SendersAlive
    /\ mainPc' = "write_json"
    /\ UNCHANGED <<argv, net, exit_code, message, config, urls, handles, enqIdx, joined, results,
                   status_json>>
    /\ UNCHANGED <<chanVars, workerVars>>

\* lines 248-253: write_json(&results), whose file I/O may fail, then main returns
MWriteJson ==
    /\ mainPc = "write_json"
    /\ \E ioOk \in BOOLEAN :
         status_json' = IF ioOk THEN <<results>> ELSE <<>>
    /\ mainPc' = "done"
    /\ exit_code' = <<0>>
    /\ UNCHANGED <<argv, net, message, config, urls, handles, enqIdx, joined, results>>
    /\ UNCHANGED <<chanVars, workerVars>>


(* -------------------------- worker threads ---------------------------- *)
Running == exit_code = <<>>

\* line 211: rx.lock() returns once the mutex is free; unwrap() panics if a
\* thread panicked while it held the guard
WLock(w) ==
    /\ Running
    /\ pc[w] = "lock"
    /\ lockHolder = 0
    /\ IF poisoned
       THEN /\ pc' = [pc EXCEPT ![w] = "panicked"]
            /\ UNCHANGED lockHolder
       ELSE /\ lockHolder' = w
            /\ pc' = [pc EXCEPT ![w] = "recv"]
    /\ UNCHANGED <<mainVars, chanVars, poisoned, cur, probeVars, histVars>>

\* WRecvOk that reads the head of the channel without taking it out
WRecvOkPeek(w) ==
    /\ Running
    /\ pc[w] = "recv"
    /\ queue # <<>>
    /\ cur' = [cur EXCEPT ![w] = Head(queue)]
    /\ deqLog' = Append(deqLog, [worker |-> w, id |-> Head(queue).id, url |-> Head(queue).url])
    /\ lockHolder' = 0
    /\ pc' = [pc EXCEPT ![w] = "probe"]
    /\ UNCHANGED <<mainVars, chanVars, poisoned, probeVars, sendLog>>

\* WRecvOk of a stack: the newest URL of the channel is taken
WRecvOkNewest(w) ==
    /\ Running
    /\ pc[w] = "recv"
    /\ queue # <<>>
    /\ cur' = [cur EXCEPT ![w] = queue[Len(queue)]]
    /\ queue' = SubSeq(queue, 1, Len(queue) - 1)
    /\ deqLog' = Append(deqLog, [worker |-> w, id |-> queue[Len(queue)].id,
                                 url |-> queue[Len(queue)].url])
    /\ lockHolder' = 0
    /\ pc' = [pc EXCEPT ![w] = "probe"]
    /\ UNCHANGED <<mainVars, tx, tx_status, sink, poisoned, probeVars, sendLog>>

\* WRecvOk with the guard living on into the probe
WRecvOkKeepLock(w) ==
    /\ Running
    /\ pc[w] = "recv"
    /\ queue # <<>>
    /\ cur' = [cur EXCEPT ![w] = Head(queue)]
    /\ queue' = Tail(queue)
    /\ deqLog' = Append(deqLog, [worker |-> w, id |-> Head(queue).id, url |-> Head(queue).url])
    /\ pc' = [pc EXCEPT ![w] = "probe"]
    /\ UNCHANGED <<mainVars, tx, tx_status, sink, lockHolder, poisoned, probeVars, sendLog>>

\* lines 212-216: lock.recv() returns Ok(url); the guard is dropped at line 213
WRecvOk(w) ==
    /\ Running
    /\ pc[w] = "recv"
    /\ queue # <<>>
    /\ cur' = [cur EXCEPT ![w] = Head(queue)]
    /\ queue' = Tail(queue)
    /\ deqLog' = Append(deqLog, [worker |-> w, id |-> Head(queue).id, url |-> Head(queue).url])
    /\ lockHolder' = 0
    /\ pc' = [pc EXCEPT ![w] = "probe"]
    /\ UNCHANGED <<mainVars, tx, tx_status, sink, poisoned, probeVars, sendLog>>

\* WRecvClosed as a try_recv: an empty channel ends the worker, closed or not
WRecvClosedOnEmpty(w) ==
    /\ Running
    /\ pc[w] = "recv"
    /\ queue = <<>>
    /\ lockHolder' = 0
    /\ pc' = [pc EXCEPT ![w] = "terminated"]
    /\ UNCHANGED <<mainVars, chanVars, poisoned, cur, probeVars, histVars>>

\* WRecvClosed of a channel that reports the disconnect before its buffer
WRecvClosedUnread(w) ==
    /\ Running
    /\ pc[w] = "recv"
    /\ tx = "dropped"
    /\ lockHolder' = 0
    /\ pc' = [pc EXCEPT ![w] = "terminated"]
    /\ UNCHANGED <<mainVars, chanVars, poisoned, cur, probeVars, histVars>>

\* lines 212-213, 221: lock.recv() returns Err (empty, sender dropped): break
WRecvClosed(w) ==
    /\ Running
    /\ pc[w] = "recv"
    /\ queue = <<>>
    /\ tx = "dropped"
    /\ lockHolder' = 0
    /\ pc' = [pc EXCEPT ![w] = "terminated"]
    /\ UNCHANGED <<mainVars, chanVars, poisoned, cur, probeVars, histVars>>

\* line 217: check_website(&url, timeout, retries)
WProbe(w) ==
    /\ Running
    /\ pc[w] = "probe"
    /\ \E clientOk \in BuildResults(net), script \in Scripts(net, cur[w].url, config.retries) :
         LET r == check_website(cur[w].url, config.timeout_secs, config.retries, clientOk,
                                script)
         IN  /\ status' = [status EXCEPT ![w] = r.status]
             /\ trace' = [trace EXCEPT ![w] = r.trace]
    /\ pc' = [pc EXCEPT ![w] = "send"]
    /\ UNCHANGED <<mainVars, chanVars, lockHolder, poisoned, cur, histVars>>

\* the Receiver<WebsiteStatus> lives until main ends
RxStatusAlive == mainPc \notin {"exit", "done", "panicked"}

\* lines 218-219: print_status(&status); tx_status.send(status).unwrap(); then
\* back to the top of the loop
WSend(w) ==
    /\ Running
    /\ pc[w] = "send"
    /\ IF RxStatusAlive
       THEN /\ sink' = Append(sink, status[w])
            /\ sendLog' = Append(sendLog,
                                 [worker |-> w, id |-> cur[w].id, status |-> status[w]])
            /\ pc' = [pc EXCEPT ![w] = "lock"]
       ELSE /\ pc' = [pc EXCEPT ![w] = "panicked"]
            /\ UNCHANGED <<sink, sendLog>>
    /\ cur' = [cur EXCEPT ![w] = NoItem]
    /\ status' = [status EXCEPT ![w] = NoStatus]
    /\ trace' = [trace EXCEPT ![w] = NoTrace]
    /\ UNCHANGED <<mainVars, tx, queue, tx_status, lockHolder, poisoned, deqLog>>

(* --------------------------- specification ---------------------------- *)
Main ==
    \/ MFromArgs
    \/ MLoadUrls
    \/ MChannels
    \/ MSpawn
    \/ MSpawnDone
    \/ MEnqueue
    \/ MDropTx
    \/ MJoin
    \/ MDropTxStatus
    \/ MDrainOk
    \/ MDrainEnd
    \/ MWriteJson

Worker(w) ==
    \/ WLock(w)
    \/ WRecvOk(w)
    \/ WRecvClosed(w)
    \/ WProbe(w)
    \/ WSend(w)

Next == Main \/ \E w \in Workers : Worker(w)

Spec == Init /\ [][Next]_vars


\* the runs given fewer than MaxUrls URLs on the command line
FairInit == Init /\ Len(SelectSeq(argv, LAMBDA a : a \in Urls)) < MaxUrls

\* Threads are scheduled by the operating system and every send() returns: as
\* long as some thread can take a step, some thread eventually does.
FairSpec ==
    /\ FairInit
    /\ [][Next]_vars
    /\ WF_vars(Next)

(* ----------------------- a worker that panics ------------------------- *)
\* line 217: check_website panics. The thread unwinds out of the closure of
\* lines 208-224: its url, its Sender<WebsiteStatus> clone and its Arc of the
\* receiver are dropped, a MutexGuard it holds is released and poisons the
\* Mutex, and its JoinHandle will yield Err.
WPanic(w) ==
    /\ Running
    /\ pc[w] = "probe"
    /\ pc' = [pc EXCEPT ![w] = "panicked"]
    /\ poisoned' = (poisoned \/ lockHolder = w)
    /\ lockHolder' = IF lockHolder = w THEN 0 ELSE lockHolder
    /\ cur' = [cur EXCEPT ![w] = NoItem]
    /\ UNCHANGED <<mainVars, chanVars, probeVars, histVars>>

\* the runs of the fake network given URLs and a worker count on the command line
PanicInit == Init /\ net = "fake" /\ argv \in {u \o w : u \in SeqsUpTo(Urls, MaxUrls), w \in WorkersArgs}

NextPanic == Next \/ \E w \in Workers : WPanic(w)

\* the program with a probe that may panic
PanicSpec == PanicInit /\ [][NextPanic]_vars

(* ------------------------------ claims -------------------------------- *)
Range(q) == {q[i] : i \in DOMAIN q}

\* the multiset of the elements of a sequence
SeqToBag(q) == [x \in Range(q) |-> Cardinality({i \in DOMAIN q : q[i] = x})]

UrlsOf(q) == [i \in DOMAIN q |-> q[i].url]

\* main has left the drain loop: `results` is what the run collected
Collected == mainPc \in {"write_json", "done"}

AllTerminated ==
    /\ handles = config.workers
    /\ \A w \in 1..handles : pc[w] = "terminated"

\* C1: count preservation. When a run with at least one worker has finished
\* draining, the multiset of the url fields of the collected results equals the
\* multiset of the input URLs: no outcome lost, none duplicated, none invented.
C1_CountPreservation ==
    (Collected /\ config.workers >= 1) =>
        SeqToBag(UrlsOf(results)) = SeqToBag(urls)

\* a finished run of two workers over three URLs, one of them given twice
C1_Witness ==
    /\ mainPc = "done"
    /\ config.workers = 2
    /\ Len(urls) = 3
    /\ Cardinality(Range(urls)) = 2
    /\ Len(results) = 3

\* C2: competing-consumer delivery. No queue item is ever received twice (by two
\* workers or by one), every received item is the URL that was enqueued under
\* that index, and once every worker of a run with at least one worker has
\* terminated normally the queue is empty and every enqueued item was received.
C2_CompetingConsumers ==
    /\ \A i, j \in DOMAIN deqLog : i # j => deqLog[i].id # deqLog[j].id
    /\ \A i \in DOMAIN deqLog :
         /\ deqLog[i].id \in 1..(enqIdx - 1)
         /\ deqLog[i].url = urls[deqLog[i].id]
    /\ (mainPc \in {"join", "drain", "write_json", "done"} /\ config.workers >= 1
        /\ AllTerminated) =>
         /\ queue = <<>>
         /\ {deqLog[i].id : i \in DOMAIN deqLog} = 1..Len(urls)

\* both workers have received items and have terminated
C2_Witness ==
    /\ config.workers = 2
    /\ AllTerminated
    /\ tx = "dropped"
    /\ Len(urls) = 3
    /\ \A w \in 1..2 : \E i \in DOMAIN deqLog : deqLog[i].worker = w

\* what a run of one worker at a time returns against the fake network: the
\* status of each URL in input order
SequentialRun ==
    [i \in DOMAIN urls |->
        check_website(urls[i], config.timeout_secs, config.retries, TRUE,
                      [k \in 1..(config.retries + 1) |-> FakeSend(urls[i])]).status]

UrlStatus(q) == [i \in DOMAIN q |-> <<q[i].url, q[i].action_status>>]

\* C3: scheduling independence. Against the fake network, a run with one worker
\* collects the sequential run's (url, status) pairs, and a run with any number
\* of workers collects the same multiset of pairs under every interleaving.
C3_SchedulingIndependence ==
    (net = "fake" /\ Collected /\ config.workers >= 1) =>
        /\ SeqToBag(UrlStatus(results)) = SeqToBag(UrlStatus(SequentialRun))
        /\ config.workers = 1 => UrlStatus(results) = UrlStatus(SequentialRun)

\* two workers returned the outcomes in another order than the input's
C3_Witness ==
    /\ net = "fake"
    /\ mainPc = "done"
    /\ config.workers = 2
    /\ Len(results) = 3
    /\ UrlsOf(results) # urls
    /\ \E i, j \in DOMAIN results :
         results[i].action_status.tag = "Ok" /\ results[j].action_status.tag = "Err"


ValidConfig == config.workers >= 1 /\ config.timeout_secs > 0

\* C4: a run always completes. Under fair scheduling, a run with a valid
\* configuration that has loaded its (non-empty) URL list reaches the end of main
\* with every worker terminated and one result per URL, however many results are
\* failures; and a worker holding a Failure outcome goes back to the top of its
\* loop when it has sent it.
C4_RunCompletes ==
    /\ (mainPc = "channels" /\ ValidConfig) ~>
           (mainPc = "done" /\ AllTerminated /\ Len(results) = Len(urls))
    /\ [][\A w \in Workers :
            (pc[w] = "send" /\ status[w].action_status.tag = "Err") =>
                pc'[w] \in {"send", "lock"}]_vars

\* a finished valid run all of whose results are failures
C4_Witness ==
    /\ mainPc = "done"
    /\ ValidConfig
    /\ Len(results) = Len(urls)
    /\ Len(results) >= 2
    /\ \A i \in DOMAIN results : results[i].action_status.tag = "Err"

\* worker w is back from check_website and has not yet sent the status
Probed(w) == pc[w] = "send"

AllFailed(w) == \A k \in DOMAIN trace[w].log : trace[w].log[k].tag = "Err"

\* C5: a check_website that got a client and whose every send() failed made
\* exactly retries + 1 sends and returns a failure.
C5_ExactAttempts ==
    \A w \in Workers :
        (Probed(w) /\ trace[w].built /\ AllFailed(w)) =>
            /\ Len(trace[w].log) = config.retries + 1
            /\ status[w].action_status.tag = "Err"

\* three failed sends with --retries 2
C5_Witness ==
    \E w \in Workers :
        /\ Probed(w) /\ trace[w].built /\ AllFailed(w)
        /\ config.retries = 2
        /\ Len(trace[w].log) = 3

\* C6: a response ends check_website at once. A send() that returned a response
\* is the last send, the status returned is Ok with that response's code
\* whatever the code, the sleeps are exactly the failed sends before it, and the
\* status is Ok only if some send() returned a response.
C6_ResponseEndsProbe ==
    \A w \in Workers :
        Probed(w) =>
            /\ \A k \in DOMAIN trace[w].log :
                 trace[w].log[k].tag = "Ok" =>
                     /\ k = Len(trace[w].log)
                     /\ status[w].action_status = Ok(trace[w].log[k].code)
                     /\ trace[w].sleeps = k - 1
            /\ status[w].action_status.tag = "Ok" <=> ~AllFailed(w)

\* a 500 answered the second send and was reported as Ok(500)
C6_Witness ==
    \E w \in Workers :
        /\ Probed(w)
        /\ Len(trace[w].log) = 2
        /\ trace[w].log[1].tag = "Err"
        /\ trace[w].log[2] = Ok(500)
        /\ config.retries = 2
        /\ status[w].action_status = Ok(500)

\* C7: when check_website got a client and every one of its retries + 1 sends
\* failed, the failure it returns carries the error of the last send, which is
\* not the preset "Failed to create client".
C7_LastError ==
    \A w \in Workers :
        (Probed(w) /\ trace[w].built /\ AllFailed(w)) =>
            /\ trace[w].log # <<>>
            /\ status[w].action_status = Err(trace[w].log[Len(trace[w].log)].err)
            /\ status[w].action_status.err # ClientError

\* the last of three sends failed otherwise than the first two
C7_Witness ==
    \E w \in Workers :
        /\ Probed(w) /\ trace[w].built /\ AllFailed(w)
        /\ Len(trace[w].log) = 3
        /\ trace[w].log[1].err = "operation timed out"
        /\ trace[w].log[2].err = "operation timed out"
        /\ trace[w].log[3].err = "connection refused"

\* C8: a check_website that got no client made no send and took no sleep,
\* whatever retries is, and returns one failure for the URL it was given.
C8_NoClientNoAttempt ==
    \A w \in Workers :
        (Probed(w) /\ ~trace[w].built) =>
            /\ trace[w].log = <<>>
            /\ trace[w].sleeps = 0
            /\ status[w].url = cur[w].url
            /\ status[w].action_status = Err(ClientError)
            /\ status[w].response_time = 0

\* build() failed in a run with --retries 2
C8_Witness ==
    \E w \in Workers :
        /\ Probed(w) /\ ~trace[w].built
        /\ config.retries = 2
        /\ cur[w].url \in Urls


NothingStarted ==
    /\ handles = 0
    /\ \A w \in Workers : pc[w] = "unspawned"
    /\ queue = <<>>
    /\ deqLog = <<>>

\* C9: a run whose parsed configuration has zero workers or a zero timeout is
\* rejected before a worker is spawned, a target enqueued or a probe started,
\* and never collects a result set.
C9_InvalidConfigRejected ==
    (mainPc # "from_args" /\ (config.workers = 0 \/ config.timeout_secs = 0)) =>
        /\ NothingStarted
        /\ ~Collected

\* C10: an empty URL list is rejected before anything is created. While no
\* non-empty list has been loaded there is no queue, no sink, no worker and no
\* probe; main gets past load_urls only with a non-empty list; and once main has
\* reported that no URL was given or none survived loading, the process has
\* exited with code 2.
C10_EmptyInputRejected ==
    /\ urls = <<>> =>
         /\ tx = "none" /\ tx_status = "none"
         /\ NothingStarted
    /\ mainPc \notin {"from_args", "load_urls", "exit"} => urls # <<>>
    /\ message \in {"No URLs provided. Use --file or provide URLs directly.",
                    "No valid URLs provided."} =>
         /\ mainPc = "exit"
         /\ exit_code = <<ExitUsage>>
         /\ urls = <<>>

\* a URL file was named, no URL was on the command line and no line survived
C10_Witness ==
    /\ mainPc = "exit"
    /\ message = "No valid URLs provided."
    /\ config.file_path = <<FilePath>>
    /\ config.urls = <<>>
    /\ tx = "none"


\* C11: drain after termination. Main is in (or past) the drain loop, or has
\* moved an outcome into results, only after it joined every handle, every
\* spawned worker has terminated and main's own Sender<WebsiteStatus> is dropped:
\* from the first drained outcome on nobody can send. Main is past the drain
\* loop only when the sink is empty and no sender exists.
C11_DrainAfterTermination ==
    /\ (mainPc \in {"drain", "write_json", "done"} \/ results # <<>>) =>
           /\ joined = handles
           /\ handles = config.workers
           /\ \A w \in 1..handles : pc[w] = "terminated"
           /\ \A w \in Workers : ~Live(w)
           /\ tx_status = "dropped"
           /\ ~SendersAlive
    /\ Collected => sink = <<>>
    /\ Collected => Len(results) = Len(sendLog)

\* main in the middle of the drain loop of a run of two workers that both sent
C11_Witness ==
    /\ mainPc = "drain"
    /\ results # <<>>
    /\ sink # <<>>
    /\ config.workers = 2
    /\ \A w \in 1..2 : \E i \in DOMAIN sendLog : sendLog[i].worker = w

\* C14: close/terminate ordering. Main has dropped the queue sender only when
\* every URL has been enqueued, and a worker has left its loop only when the
\* sender is dropped, the queue is empty and every URL has been dequeued: no
\* worker terminates normally while the queue is open or a target is waiting.
C14_CloseTerminateOrdering ==
    /\ tx = "dropped" => enqIdx = Len(urls) + 1
    /\ \A w \in Workers :
         pc[w] = "terminated" =>
             /\ tx = "dropped"
             /\ queue = <<>>
             /\ {deqLog[i].id : i \in DOMAIN deqLog} = 1..Len(urls)

\* two workers were started for one URL: the one that got nothing waited on the
\* open queue and has terminated, the other one is still probing
C14_Witness ==
    /\ config.workers = 2
    /\ Len(urls) = 1
    /\ \E w, v \in 1..2 :
         /\ pc[w] = "terminated"
         /\ pc[v] = "probe"
         /\ \A i \in DOMAIN deqLog : deqLog[i].worker = v

\* the URLs main has sent and no worker has received yet, in the order of the sends
Unreceived ==
    [i \in 1..(enqIdx - 1 - Len(deqLog)) |->
        [id |-> Len(deqLog) + i, url |-> urls[Len(deqLog) + i]]]

\* C15: FIFO dequeue order. Over all workers together the k-th successful recv
\* returned the k-th input URL, and the queue holds exactly the sent URLs not
\* yet received, oldest first: no worker gets a later target while an earlier
\* one is still queued.
C15_FifoDequeue ==
    /\ \A k \in DOMAIN deqLog : deqLog[k].id = k /\ deqLog[k].url = urls[k]
    /\ queue = Unreceived

\* three different-in-place URLs received by two workers taking turns
C15_Witness ==
    /\ Len(deqLog) = 3
    /\ urls[1] # urls[2]
    /\ deqLog[1].worker # deqLog[2].worker
    /\ deqLog[3].worker = deqLog[1].worker

IdsOf(q) == [i \in DOMAIN q |-> q[i].id]

IsPrefix(p, q) == Len(p) <= Len(q) /\ p = SubSeq(q, 1, Len(p))

ReceivedBy(w) == SelectSeq(deqLog, LAMBDA e : e.worker = w)

SentBy(w) == SelectSeq(sendLog, LAMBDA e : e.worker = w)

\* C16: per-worker order preservation in the sink. The outcomes main has
\* drained followed by those still in the sink are the outcomes in the order of
\* their sends, so the final list is the arrival order and keeps each worker's
\* outcomes in the order that worker sent them; and each worker sends the
\* outcomes of its targets in the order it received the targets.
C16_PerWorkerOrder ==
    /\ results \o sink = [i \in DOMAIN sendLog |-> sendLog[i].status]
    /\ Collected => results = [i \in DOMAIN sendLog |-> sendLog[i].status]
    /\ \A w \in Workers : IsPrefix(IdsOf(SentBy(w)), IdsOf(ReceivedBy(w)))

\* a collected run in which one worker sent two different outcomes around an
\* outcome of the other worker
C16_Witness ==
    /\ Collected
    /\ Len(sendLog) = 3
    /\ sendLog[1].worker = sendLog[3].worker
    /\ sendLog[2].worker # sendLog[1].worker
    /\ sendLog[1].status # sendLog[3].status
    /\ sendLog[1].status # sendLog[2].status

\* C17: backoff placement. A check_website that made attempts slept once less
\* than it sent: after every failed send() that another send() followed, not
\* after the last failed one and not after a response. Without a client it
\* neither sends nor sleeps.
C17_BackoffPlacement ==
    \A w \in Workers :
        Probed(w) =>
            /\ trace[w].built => trace[w].sleeps + 1 = Len(trace[w].log)
            /\ ~trace[w].built => trace[w].sleeps = 0 /\ trace[w].log = <<>>
            /\ AllFailed(w) /\ trace[w].built => trace[w].sleeps = config.retries
            /\ \A k \in DOMAIN trace[w].log :
                   trace[w].log[k].tag = "Ok" => trace[w].sleeps = k - 1

\* three failed sends and two sleeps with --retries 2
C17_Witness ==
    \E w \in Workers :
        /\ Probed(w) /\ trace[w].built /\ AllFailed(w)
        /\ config.retries = 2
        /\ Len(trace[w].log) = 3
        /\ trace[w].sleeps = 2

RECURSIVE SumMillis(_, _)
\* the time the sends of a log are known to have taken
SumMillis(log, timeout_secs) ==
    IF log = <<>> THEN 0
    ELSE AttemptMillis(Head(log), timeout_secs) + SumMillis(Tail(log), timeout_secs)

AllTimedOut(w) ==
    \A k \in DOMAIN trace[w].log : trace[w].log[k] = Err("operation timed out")

\* C18: elapsed-time lower bound. The response_time of a status is a natural
\* number of milliseconds, at least the time its sends took plus the backoff
\* sleeps between them; after --retries 1 against a target whose every attempt
\* timed out it is at least twice the per-attempt timeout.
C18_ElapsedLowerBound ==
    \A w \in Workers :
        Probed(w) =>
            /\ status[w].response_time \in Nat
            /\ status[w].response_time >=
                   SumMillis(trace[w].log, config.timeout_secs)
                       + trace[w].sleeps * BackoffMillis
            /\ (trace[w].built /\ config.retries = 1 /\ AllTimedOut(w)) =>
                   status[w].response_time >= 2 * config.timeout_secs * 1000

\* two timed-out sends of five seconds each with --retries 1
C18_Witness ==
    \E w \in Workers :
        /\ Probed(w) /\ trace[w].built /\ AllTimedOut(w)
        /\ config.retries = 1
        /\ config.timeout_secs = DefaultTimeoutSecs
        /\ Len(trace[w].log) = 2
        /\ status[w].response_time = 2 * DefaultTimeoutSecs * 1000 + BackoffMillis

\* C19: the queue lock is held only for the dequeue. A worker holds the Mutex
\* exactly while it is inside recv(): never while it probes, prints or sends,
\* so at most one worker is inside recv() and a worker that is probing leaves
\* the lock to the others.
C19_LockOnlyForDequeue ==
    /\ lockHolder \in {0} \cup Workers
    /\ \A w \in Workers :
         /\ lockHolder = w <=> pc[w] = "recv"
         /\ pc[w] \in {"probe", "send"} => lockHolder # w
    /\ Cardinality({w \in Workers : pc[w] = "recv"}) <= 1

\* one worker is probing while another one holds the lock inside recv()
C19_Witness ==
    \E w, v \in Workers :
        /\ pc[w] = "probe"
        /\ pc[v] = "recv"
        /\ lockHolder = v

(* ---------------- claims about a worker that panics ------------------- *)
SomePanicked == \E w \in Workers : pc[w] = "panicked"

\* what a panic in a probe leaves intact: the Mutex is not poisoned and every
\* outcome sent so far is still in the sink or already drained
PanicLeavesChannelsUsable ==
    SomePanicked =>
        /\ ~poisoned
        /\ results \o sink = [i \in DOMAIN sendLog |-> sendLog[i].status]

\* C12: worker crash isolation. After a worker panicked inside its probe the
\* queue lock is not poisoned, the outcomes already sent are still there, and
\* the other workers get to dequeue and probe every remaining target: the
\* process does not end on a live worker while a target is still queued or
\* dequeued and not yet probed.
C12_CrashIsolation ==
    /\ PanicLeavesChannelsUsable
    /\ (SomePanicked /\ ~Running /\ \E w \in Workers : Live(w)) =>
           /\ queue = <<>>
           /\ \A w \in Workers : pc[w] # "probe"

\* a worker that ended abnormally keeps main from ever leaving the join loop
AbnormalEndAborts == SomePanicked => ~Collected /\ status_json = <<>>

\* with at least one worker, what main hands to write_json is complete
CompleteWhenWorkers ==
    (Collected /\ config.workers >= 1) => Len(results) = Len(urls)

\* C13: no silent partial result. Once a worker has ended abnormally main never
\* gets to hand a result set to write_json, and whenever main does hand one over
\* it holds as many outcomes as there were targets.
C13_NoSilentPartialResult ==
    /\ AbnormalEndAborts
    /\ Collected => Len(results) = Len(urls)

\* main is past the enqueue loop
PastEnqueue == mainPc \in {"drop_tx", "join", "drain", "write_json", "done", "panicked"}

\* C20: the enqueue loop never breaks early. While main is in the loop the
\* receiver exists, since main holds an Arc of it, so send() cannot fail; once
\* main is past the loop or has dropped the sender, every URL has been sent:
\* the URLs received and the URLs still queued are all the input URLs, in
\* order, whatever has become of the workers.
C20_EnqueueNeverBreaks ==
    /\ mainPc = "enqueue" => RxAlive
    /\ (PastEnqueue \/ tx = "dropped") =>
           /\ enqIdx = Len(urls) + 1
           /\ IdsOf(deqLog) \o IdsOf(queue) = [i \in 1..Len(urls) |-> i]

\* both workers of a run over three URLs have panicked, each on the URL it
\* received, and main has sent the third URL all the same
C20_Witness ==
    /\ mainPc = "drop_tx"
    /\ config.workers = 2
    /\ \A w \in 1..2 : pc[w] = "panicked"
    /\ Len(urls) = 3
    /\ IdsOf(queue) = <<3>>

====
